---------------------------- MODULE Spec2Model ----------------------------
(***************************************************************************)
(* A model of tarpaulin's debug-info analyser (src/src/tracer.rs) and of   *)
(* the per-binary tracing loop of its entry point (src/src/main.rs).       *)
(*                                                                         *)
(* The analyser is a pipeline of functions.  Each is an operator here,     *)
(* computed as the code computes it, and each has a specification that     *)
(* runs it on inputs drawn from bounded sets:                              *)
(*   SpecEntries  get_entry_points / generate_func_desc                    *)
(*   SpecRows     get_addresses_from_program                               *)
(*   SpecAgg      the filtering and extent recomputation that ends         *)
(*                get_line_addresses                                       *)
(*   Spec         get_line_addresses, the loop over compilation units      *)
(*   SpecTrace    main's loop over the test binaries, collect_coverage     *)
(*                and execute_test                                         *)
(***************************************************************************)
EXTENDS Integers, Sequences, FiniteSets, TLC

VARIABLES
    pc,            \* position of the analyser function being run
    dies,          \* get_entry_points: the entries the cursor walks
    cursor,        \* get_entry_points: number of entries already visited
    descs,         \* get_entry_points: `result`, the Vec<FuncDesc>
    cwd,           \* the process's working directory (Path::canonicalize)
    entries,       \* get_addresses_from_program: the seed table
    addresses,     \* get_addresses_from_program: `result`
    ln_row,        \* get_addresses_from_program: the row the loop body is on
    cu,            \* get_line_addresses: the unit `iter.next()` gave last
    nunits,        \* get_line_addresses: number of units the loop has taken
    result,        \* get_line_addresses: `result` before the filters
    ignore,        \* get_line_addresses: the ignore set
    ignore_tests,  \* get_line_addresses: the flag
    output,        \* get_line_addresses: `result` after the filters
    ret,           \* get_line_addresses: "none", "Ok" or "Err"
    ppc,           \* main: position of the tracer (parent) process
    idx,           \* main: number of test binaries the loop has taken
    child,         \* per test binary: the state of the forked process
    waited,        \* per test binary: what the parent's waitpid returned
    log            \* what the parent printed, in order

vars == <<pc, dies, cursor, descs, cwd, entries, addresses, ln_row, cu,
          nunits,
          result, ignore, ignore_tests, output, ret, ppc, idx, child, waited, log>>

entVars == <<dies, cursor, descs>>
rowVars == <<entries, addresses, ln_row>>
unitVars == <<cu, nunits, result>>
aggVars == <<ignore, ignore_tests, output>>
traceVars == <<ppc, idx, child, waited, log>>

-----------------------------------------------------------------------------
(* Bounds of the model.                                                    *)

MaxDies == 2
MaxRows == 2
MaxRecs == 3
MaxUnits == 2
MaxTests == 2

-----------------------------------------------------------------------------
(* std::path.  A path is the sequence of its components; "/" is the root   *)
(* component of an absolute path, "." the CurDir component, which          *)
(* Path::components keeps only in first position, ".." the ParentDir       *)
(* component, which it always keeps.                                       *)

Root == "/"
CurDir == "."
ParentDir == ".."

EmptyPath == << >>

is_absolute(p) == Len(p) > 0 /\ p[1] = Root
is_relative(p) == ~is_absolute(p)

\* Path::starts_with: component-wise prefix, nothing is resolved.
starts_with(p, base) ==
    /\ Len(base) <= Len(p)
    /\ \A i \in 1..Len(base) : p[i] = base[i]

\* Path::join / PathBuf::push: an absolute argument replaces the path; a
\* CurDir component that is no longer first disappears.
push(p, q) ==
    IF is_absolute(q) THEN q
    ELSE IF Len(p) = 0 THEN q
    ELSE p \o SelectSeq(q, LAMBDA c : c # CurDir)

join(p, name) == push(p, <<name>>)

(* The file system the analyser runs against: the project at /proj with   *)
(* its sources, its integration tests and its build output, and one        *)
(* directory outside the project.  There are no symbolic links.            *)
project == <<Root, "proj">>

Dirs ==
    { <<Root>>, project, <<Root, "proj", "src">>, <<Root, "proj", "tests">>,
      <<Root, "proj", "target">>, <<Root, "proj", "target", "debug">>,
      <<Root, "other">>, <<Root, "other", "src">> }

Files ==
    { <<Root, "proj", "src", "lib.rs">>,
      <<Root, "proj", "tests", "it.rs">>,
      <<Root, "proj", "target", "debug", "gen.rs">>,
      <<Root, "other", "src", "lib.rs">> }

Cwds == { project, <<Root, "other">> }

NoEntry == <<"?">>

\* Path resolution as the kernel does it: every component but the last must
\* name a directory, and the whole must exist; NoEntry when it does not.
RECURSIVE Walk(_, _)
Walk(at, comps) ==
    IF at = NoEntry THEN NoEntry
    ELSE IF comps = << >> THEN (IF at \in Dirs \cup Files THEN at ELSE NoEntry)
    ELSE IF at \notin Dirs THEN NoEntry
    ELSE LET c == Head(comps)
             next == IF c \in {CurDir, Root} THEN (IF c = Root THEN <<Root>> ELSE at)
                     ELSE IF c = ParentDir
                          THEN (IF Len(at) > 1 THEN SubSeq(at, 1, Len(at) - 1) ELSE at)
                          ELSE Append(at, c)
         IN Walk(next, Tail(comps))

Resolve(p, wd) == IF p = EmptyPath THEN NoEntry ELSE Walk(wd, p)

\* Path::canonicalize: Ok(the resolved absolute path) or Err.
canonicalize(p, wd) ==
    LET r == Resolve(p, wd) IN [ok |-> r # NoEntry, path |-> r]

\* Path::is_file.
is_file(p, wd) == Resolve(p, wd) \in Files

-----------------------------------------------------------------------------
(* Function descriptors: generate_func_desc and get_entry_points.          *)

\* What DebuggingInformationEntry::attr_value gives for one attribute: Err,
\* Ok(None), or Ok(Some(value)) with the value's form and payload.
AttrErr == [k |-> "Err", v |-> 0]
AttrNone == [k |-> "None", v |-> 0]
Addr(x) == [k |-> "Addr", v |-> x]
Udata(x) == [k |-> "Udata", v |-> x]
DebugStrRef(o) == [k |-> "DebugStrRef", v |-> o]

\* .debug_str: offset -> the symbol stored there, as the sequence of the path
\* segments rustc_demangle prints joined by "::" (the last one is the hash).
\* DebugStr::get_str fails for every other offset.
debug_str ==
    [o \in {1, 2, 3} |->
        CASE o = 1 -> <<"foo", "tests", "it_works", "h1">>
          [] o = 2 -> <<"__test", "main", "h2">>
          [] o = 3 -> <<"foo", "bar", "h3">>]

StrOffsets == {0, 1, 2, 3}

\* debug_str.get_str(offset).unwrap_or_else(|_| empty) ... demangle(name)
demangle(o) == IF o \in DOMAIN debug_str THEN debug_str[o] ELSE << >>

\* name.contains("tests::"): a segment named tests that another one follows.
ContainsTests(segs) ==
    \E i \in 1..Len(segs) : segs[i] = "tests" /\ i < Len(segs)

\* name.contains("__test::main")
ContainsTestMain(segs) ==
    \E i \in 1..Len(segs) :
        segs[i] = "__test" /\ i < Len(segs) /\ segs[i + 1] = "main"

FuncTypeOfName(segs) ==
    IF ContainsTests(segs) THEN "Test"
    ELSE IF ContainsTestMain(segs) THEN "Generated"
    ELSE "Standard"

\* generate_func_desc: Err when reading one of the three attributes fails
\* (the three `?`), else Ok((low, high, func_type)).
generate_func_desc(die) ==
    IF die.low.k = "Err" \/ die.high.k = "Err" \/ die.linkage.k = "Err"
    THEN [ok |-> FALSE, desc |-> [low |-> 0, high |-> 0, func_type |-> "Standard"]]
    ELSE [ok |-> TRUE,
          desc |-> [low |-> IF die.low.k = "Addr" THEN die.low.v ELSE 0,
                    high |-> IF die.high.k = "Udata" THEN die.high.v ELSE 0,
                    func_type |-> IF die.linkage.k = "DebugStrRef"
                                  THEN FuncTypeOfName(demangle(die.linkage.v))
                                  ELSE "Standard"]]

\* One turn of get_entry_points' loop on a node the cursor returned.
EntryPointsStep(acc, node) ==
    IF node.tag = "subprogram" /\ generate_func_desc(node).ok
    THEN Append(acc, generate_func_desc(node).desc)
    ELSE acc

\* get_entry_points: the walk ends at the first node cursor.next_dfs fails on.
RECURSIVE get_entry_points_from(_, _)
get_entry_points_from(acc, nodes) ==
    IF nodes = << >> \/ Head(nodes).tag = "corrupt" THEN acc
    ELSE get_entry_points_from(EntryPointsStep(acc, Head(nodes)), Tail(nodes))

get_entry_points(nodes) == get_entry_points_from(<< >>, nodes)

-----------------------------------------------------------------------------
(* LineType and the seed table get_line_addresses builds from the          *)
(* descriptors.                                                            *)

TestMain == [tag |-> "TestMain", off |-> 0]
TestEntry(e) == [tag |-> "TestEntry", off |-> e]
FunctionEntry(e) == [tag |-> "FunctionEntry", off |-> e]
Unknown == [tag |-> "Unknown", off |-> 0]

SeedOf(fd) ==
    [addr |-> fd.low,
     t |-> CASE fd.func_type = "Test" -> TestEntry(fd.high)
             [] fd.func_type = "Standard" -> FunctionEntry(fd.high)
             [] fd.func_type = "Generated" -> TestMain]

SeedTable(fds) == [i \in 1..Len(fds) |-> SeedOf(fds[i])]

\* entries.iter().filter(addr == address).map(t).nth(0).unwrap_or(Unknown)
LookupDesc(tbl, address) ==
    LET hits == SelectSeq(tbl, LAMBDA e : e.addr = address)
    IN IF hits = << >> THEN Unknown ELSE hits[1].t

-----------------------------------------------------------------------------
(* The line program: get_addresses_from_program.                           *)

\* A row of the line-number program as the loop reads it:
\*   k        "row", or "corrupt" when sm.next_row() fails on it
\*   file     whether ln_row.file(header) is Some
\*   dir      file.directory(header): None, bytes that are not UTF-8, or a path
\*   name     file.path_name(): bytes that are not UTF-8, or a path
\*   line     ln_row.line(), 0 for None
\*   address  ln_row.address()
NoDir == [k |-> "None", path |-> EmptyPath]
NonUtf8 == [k |-> "NonUtf8", path |-> EmptyPath]
Utf8(p) == [k |-> "Utf8", path |-> p]

tests_dir == join(project, "tests")
target_dir == join(project, "target")

\* Lines 121-127: the PathBuf the directory entry gives.
DirPath(row) == IF row.dir.k = "Utf8" THEN push(EmptyPath, row.dir.path) ELSE EmptyPath

\* Lines 131-141: is_target, and the path after the attempt to canonicalize.
TargetCheck(path, wd) ==
    IF is_relative(path)
    THEN LET res == starts_with(path, <<"target">>)
             c == canonicalize(path, wd)
         IN [is_target |-> res,
             path |-> IF ~res /\ c.ok THEN c.path ELSE path]
    ELSE [is_target |-> starts_with(path, target_dir), path |-> path]

\* Line 143: source is part of the project.
Covered(tc) == ~tc.is_target /\ starts_with(tc.path, project)

\* ForceDesc with the test-directory override left out.
ForceDesc_Never(desc, force_test) == desc

\* Lines 168-171: a FunctionEntry in the tests directory becomes a TestEntry.
ForceDesc(desc, force_test) ==
    IF desc.tag = "FunctionEntry" /\ force_test THEN TestEntry(desc.off) ELSE desc

TracerData(p, l, a, t) ==
    [path |-> p, line |-> l, address |-> a, trace_type |-> t, hits |-> 0]

\* Lines 120-182: the records one row adds to `result`, none or one.
RowRecords(row, tbl, wd) ==
    IF ~row.file THEN << >>
    ELSE LET tc == TargetCheck(DirPath(row), wd)
             force_test == starts_with(tc.path, tests_dir)
             path == push(tc.path, row.name.path)
         IN IF ~Covered(tc) THEN << >>
            ELSE IF row.line = 0 THEN << >>
            ELSE IF row.name.k # "Utf8" THEN << >>
            ELSE IF ~is_file(path, wd) THEN << >>
            ELSE << TracerData(path, row.line, row.address,
                               ForceDesc(LookupDesc(tbl, row.address), force_test)) >>

\* Lines 119-183: the rows of one sequence, up to the first one next_row
\* fails on.
RECURSIVE SequenceRecords(_, _, _)
SequenceRecords(rows, tbl, wd) ==
    IF rows = << >> \/ Head(rows).k = "corrupt" THEN << >>
    ELSE RowRecords(Head(rows), tbl, wd) \o SequenceRecords(Tail(rows), tbl, wd)

RECURSIVE ProgramRecords(_, _, _)
ProgramRecords(seqs, tbl, wd) ==
    IF seqs = << >> THEN << >>
    ELSE SequenceRecords(Head(seqs), tbl, wd) \o ProgramRecords(Tail(seqs), tbl, wd)

\* get_addresses_from_program: Err when prog.sequences() fails.
get_addresses_from_program(prog, tbl, wd) ==
    IF ~prog.sequences_ok THEN [ok |-> FALSE, recs |-> << >>]
    ELSE [ok |-> TRUE, recs |-> ProgramRecords(prog.seqs, tbl, wd)]

-----------------------------------------------------------------------------
(* The end of get_line_addresses: the filters and the extents.             *)

Key(x) == <<x.path, x.line>>

\* Line 234.
NotIgnoredTest(x, ign_tests) == ~(ign_tests /\ starts_with(x.path, tests_dir))

\* Line 235.  usize has the 64 bits of u64 on the targets ptrace is driven
\* on, so `x.line as usize` keeps the value.
NotIgnored(x, ign) == <<x.path, x.line>> \notin ign

\* Dedup keeping the last record of each (path, line) instead of the first.
RECURSIVE Dedup_KeepLast(_, _)
Dedup_KeepLast(xs, check) ==
    IF xs = << >> THEN << >>
    ELSE IF \E j \in 2..Len(xs) : <<xs[j].path, xs[j].line>> = <<xs[1].path, xs[1].line>>
         THEN Dedup_KeepLast(Tail(xs), check)
         ELSE <<Head(xs)>> \o Dedup_KeepLast(Tail(xs), check)

\* Line 236: check.insert is true for the first record of each (path, line)
\* among those the two filters before it let through.
RECURSIVE Dedup(_, _)
Dedup(xs, check) ==
    IF xs = << >> THEN << >>
    ELSE IF Key(Head(xs)) \in check THEN Dedup(Tail(xs), check)
    ELSE <<Head(xs)>> \o Dedup(Tail(xs), check \cup {Key(Head(xs))})

\* The TestMain filter left out.
NotTestMain_Always(x) == TRUE

\* Line 237.
NotTestMain(x) == x.trace_type # TestMain

\* Lines 232-239.
FilterRecords(xs, ign, ign_tests) ==
    SelectSeq(
        Dedup(SelectSeq(SelectSeq(xs, LAMBDA x : NotIgnoredTest(x, ign_tests)),
                        LAMBDA x : NotIgnored(x, ign)),
              {}),
        NotTestMain)

\* The fold without `+ acc`: the last qualifying delta, not the largest.
FoldStep_NoAcc(acc, x, entry_address, endpoint) ==
    IF x > entry_address /\ (x - entry_address) <= endpoint
    THEN x - entry_address
    ELSE acc

\* Lines 258-262: one turn of the fold.
FoldStep(acc, x, entry_address, endpoint) ==
    IF x > entry_address + acc /\ (x - entry_address) <= endpoint
    THEN x - entry_address
    ELSE acc

\* Lines 256-263.
RECURSIVE FoldAddresses(_, _, _, _)
FoldAddresses(acc, addrs, entry_address, endpoint) ==
    IF addrs = << >> THEN acc
    ELSE FoldAddresses(FoldStep(acc, Head(addrs), entry_address, endpoint),
                       Tail(addrs), entry_address, endpoint)

\* Lines 240-266.
RecomputeExtents(xs) ==
    LET addrs == [i \in 1..Len(xs) |-> xs[i].address]
    IN [i \in 1..Len(xs) |->
          IF xs[i].trace_type.tag = "TestEntry"
          THEN [xs[i] EXCEPT !.trace_type =
                    TestEntry(FoldAddresses(0, addrs, xs[i].address,
                                            xs[i].trace_type.off))]
          ELSE xs[i]]

-----------------------------------------------------------------------------
(* Values of the variables a specification does not use.                   *)

NoNode == [tag |-> "other", low |-> AttrNone, high |-> AttrNone, linkage |-> AttrNone]
CorruptNode == [tag |-> "corrupt", low |-> AttrNone, high |-> AttrNone, linkage |-> AttrNone]
NoRow == [k |-> "row", file |-> FALSE, dir |-> NoDir, name |-> NonUtf8, line |-> 0, address |-> 0]
CorruptRow == [k |-> "corrupt", file |-> FALSE, dir |-> NoDir, name |-> NonUtf8, line |-> 0, address |-> 0]
NoProgram == [sequences_ok |-> TRUE, seqs |-> << >>]
NoUnit == [abbr_ok |-> TRUE, root_ok |-> TRUE, stmt_list |-> FALSE, program_ok |-> TRUE,
           dies |-> << >>, prog |-> NoProgram]

EntriesIdle == dies = << >> /\ cursor = 0 /\ descs = << >>
RowsIdle == entries = << >> /\ addresses = << >> /\ ln_row = NoRow
UnitsIdle == cu = NoUnit /\ nunits = 0 /\ result = << >>
AggIdle == ignore = {} /\ ignore_tests = FALSE /\ output = << >>
TraceIdle == ppc = "idle" /\ idx = 0 /\ child = << >> /\ waited = << >> /\ log = << >>

SeqsUpTo(S, n) == UNION {[1..k -> S] : k \in 0..n}

-----------------------------------------------------------------------------
(* SpecEntries: get_entry_points walks the entries of one unit.            *)

LowReads == {AttrErr, AttrNone, Addr(1), Addr(2)}
HighReads == {AttrErr, AttrNone, Udata(2)}
LinkageReads == {AttrErr, AttrNone} \cup {DebugStrRef(o) : o \in StrOffsets}

Subprograms ==
    [tag : {"subprogram"}, low : LowReads, high : HighReads, linkage : LinkageReads]

Nodes == Subprograms \cup {NoNode, CorruptNode}

InitEntries ==
    /\ pc = "walk"
    /\ dies \in SeqsUpTo(Nodes, MaxDies)
    /\ cursor = 0
    /\ descs = << >>
    /\ cwd = project
    /\ ret = "none"
    /\ RowsIdle /\ UnitsIdle /\ AggIdle /\ TraceIdle

\* Lines 100-106: next_dfs gives a subprogram entry.
VisitSubprogram ==
    /\ pc = "walk"
    /\ cursor < Len(dies)
    /\ dies[cursor + 1].tag = "subprogram"
    /\ descs' = EntryPointsStep(descs, dies[cursor + 1])
    /\ cursor' = cursor + 1
    /\ UNCHANGED <<pc, dies, cwd, ret, rowVars, unitVars, aggVars, traceVars>>

\* Lines 100-102: next_dfs gives an entry with another tag.
VisitOther ==
    /\ pc = "walk"
    /\ cursor < Len(dies)
    /\ dies[cursor + 1].tag = "other"
    /\ descs' = EntryPointsStep(descs, dies[cursor + 1])
    /\ cursor' = cursor + 1
    /\ UNCHANGED <<pc, dies, cwd, ret, rowVars, unitVars, aggVars, traceVars>>

\* Lines 100, 109: next_dfs gives Ok(None) or Err, the loop ends.
WalkEnds ==
    /\ pc = "walk"
    /\ IF cursor = Len(dies) THEN TRUE ELSE dies[cursor + 1].tag = "corrupt"
    /\ pc' = "walked"
    /\ UNCHANGED <<dies, cursor, descs, cwd, ret, rowVars, unitVars, aggVars, traceVars>>

NextEntries == VisitSubprogram \/ VisitOther \/ WalkEnds

SpecEntries == InitEntries /\ [][NextEntries]_vars

\* The descriptor of an entry with every attribute that cannot be read, is
\* absent or has another form at its default.
DegradedDesc(die) ==
    [low |-> IF die.low.k = "Addr" THEN die.low.v ELSE 0,
     high |-> IF die.high.k = "Udata" THEN die.high.v ELSE 0,
     func_type |-> IF die.linkage.k = "DebugStrRef"
                   THEN FuncTypeOfName(demangle(die.linkage.v))
                   ELSE "Standard"]

ErrCount(die) ==
    Cardinality({a \in {"low", "high", "linkage"} : die[a].k = "Err"})

\* C10: every subprogram entry the walk has visited, one of whose attributes
\* could not be read, has its descriptor in the result, the unreadable field
\* at its default and the other two as read.
C10_AttributeErrorKeepsDescriptor ==
    \A i \in 1..cursor :
        (dies[i].tag = "subprogram" /\ ErrCount(dies[i]) = 1)
            => \E j \in 1..Len(descs) : descs[j] = DegradedDesc(dies[i])

-----------------------------------------------------------------------------
(* SpecRows: get_addresses_from_program runs one line-number program       *)
(* against the seed table of its unit.                                     *)

RowDirPaths ==
    { <<Root, "proj", "src">>, <<Root, "proj", "tests">>,
      <<Root, "proj", "target", "debug">>, <<Root, "other", "src">>,
      <<Root, "proj", "src", ParentDir, "target", "debug">>,
      <<"src">>, <<"tests">>, <<"target", "debug">>,
      <<CurDir, "target", "debug">>, <<"src", ParentDir, "target", "debug">>,
      <<"missing">> }

RowDirs == {NoDir, NonUtf8} \cup {Utf8(p) : p \in RowDirPaths}

RowNames ==
    {NonUtf8} \cup
    {Utf8(p) : p \in { <<"lib.rs">>, <<"it.rs">>, <<"gen.rs">>,
                       <<Root, "proj", "tests", "it.rs">>,
                       <<Root, "other", "src", "lib.rs">> }}

RowLines == {0, 1}
RowAddresses == {1, 2}

Rows ==
    [k : {"row"}, file : {TRUE}, dir : RowDirs, name : RowNames,
     line : RowLines, address : RowAddresses] \cup {NoRow}

\* The seed tables: what get_line_addresses makes of up to two descriptors
\* with low address 1.
RowFuncDescs == [low : {1}, high : {2}, func_type : {"Test", "Standard", "Generated"}]

SeedTables ==
    {SeedTable(fds) : fds \in {<< >>} \cup {<<d>> : d \in RowFuncDescs}
                                  \cup {<<d, e>> : d \in RowFuncDescs, e \in RowFuncDescs}}

InitRows ==
    /\ pc = "sequences"
    /\ cwd \in Cwds
    /\ entries \in SeedTables
    /\ addresses = << >>
    /\ ln_row = NoRow
    /\ ret = "none"
    /\ EntriesIdle /\ UnitsIdle /\ AggIdle /\ TraceIdle

\* Line 116: prog.sequences() fails, `?` returns the error.
SequencesFail ==
    /\ pc = "sequences"
    /\ pc' = "read"
    /\ ret' = "Err"
    /\ UNCHANGED <<cwd, entVars, rowVars, unitVars, aggVars, traceVars>>

\* Line 116: prog.sequences() gives the sequences.
SequencesOk ==
    /\ pc = "sequences"
    /\ pc' = "rows"
    /\ UNCHANGED <<cwd, ret, entVars, rowVars, unitVars, aggVars, traceVars>>

\* Line 119: next_row gives a row.
NextRow ==
    /\ pc = "rows"
    /\ Len(addresses) < MaxRows
    /\ \E r \in Rows : ln_row' = r
    /\ pc' = "row"
    /\ UNCHANGED <<cwd, ret, entries, addresses, entVars, unitVars, aggVars, traceVars>>

\* Lines 120-182: the body of the loop on that row; it pushes the row's
\* record or nothing, and the binding of the row ends with it.
ProcessRow ==
    /\ pc = "row"
    /\ addresses' = addresses \o RowRecords(ln_row, entries, cwd)
    /\ ln_row' = NoRow
    /\ pc' = "rows"
    /\ UNCHANGED <<cwd, ret, entries, entVars, unitVars, aggVars, traceVars>>

\* Lines 117-119: next_row fails; the rows left in this sequence are not
\* read, the loop goes on with the next sequence.
NextRowFails ==
    /\ pc = "rows"
    /\ ln_row' = CorruptRow
    /\ UNCHANGED <<pc, cwd, ret, entries, addresses, entVars, unitVars, aggVars, traceVars>>

\* Line 185: the last sequence is read.
ProgramEnds ==
    /\ pc = "rows"
    /\ pc' = "read"
    /\ ret' = "Ok"
    /\ UNCHANGED <<cwd, entVars, rowVars, unitVars, aggVars, traceVars>>

NextRows ==
    SequencesFail \/ SequencesOk \/ NextRow \/ ProcessRow \/ NextRowFails \/ ProgramEnds

SpecRows == InitRows /\ [][NextRows]_vars

\* Where a path leads: its ParentDir components taken with the component
\* before them (the file system has no symbolic links).
RECURSIVE Lexical(_, _)
Lexical(acc, p) ==
    IF p = << >> THEN acc
    ELSE IF Head(p) = ParentDir
         THEN Lexical(IF Len(acc) > 1 THEN SubSeq(acc, 1, Len(acc) - 1) ELSE acc, Tail(p))
         ELSE Lexical(Append(acc, Head(p)), Tail(p))

Within(p, base) == starts_with(Lexical(<< >>, p), base)

Last(xs) == xs[Len(xs)]

\* C1: every record the line program has emitted has a path within the
\* project root and not within the build-output subtree.
C1_EmittedInsideProjectOutsideTarget ==
    \A i \in 1..Len(addresses) :
        /\ Within(addresses[i].path, project)
        /\ ~Within(addresses[i].path, target_dir)

-----------------------------------------------------------------------------
(* SpecAgg: the end of get_line_addresses on a list of emitted records.    *)

src_lib == <<Root, "proj", "src", "lib.rs">>
tests_it == <<Root, "proj", "tests", "it.rs">>

AggKeys == { <<src_lib, 1>>, <<src_lib, 2>>, <<tests_it, 1>> }
AggAddresses == {1, 2}
AggTypes == {TestMain, TestEntry(1), Unknown}

AggRecords ==
    {TracerData(k[1], k[2], a, t) : k \in AggKeys, a \in AggAddresses, t \in AggTypes}

AggIgnores == { {}, {<<src_lib, 1>>} }

InitAgg ==
    /\ pc = "units"
    /\ result = << >>
    /\ ignore \in AggIgnores
    /\ ignore_tests \in BOOLEAN
    /\ output = << >>
    /\ ret = "none"
    /\ cwd = project
    /\ cu = NoUnit /\ nunits = 0
    /\ EntriesIdle /\ RowsIdle /\ TraceIdle

\* Lines 225-227: the loop over the units appends a record a line program
\* emitted.
AppendRecord ==
    /\ pc = "units"
    /\ Len(result) < MaxRecs
    /\ \E x \in AggRecords : result' = Append(result, x)
    /\ UNCHANGED <<pc, cwd, ret, cu, nunits, aggVars, entVars, rowVars, traceVars>>

\* Lines 232-267: the filters, the extents, Ok(result).
FilterAndRecompute ==
    /\ pc = "units"
    /\ output' = RecomputeExtents(FilterRecords(result, ignore, ignore_tests))
    /\ ret' = "Ok"
    /\ pc' = "returned"
    /\ UNCHANGED <<cwd, cu, nunits, result, ignore, ignore_tests, entVars, rowVars, traceVars>>

NextAgg == AppendRecord \/ FilterAndRecompute

SpecAgg == InitAgg /\ [][NextAgg]_vars

(* SpecExtents: the same, on records with three addresses and two raw      *)
(* extents, and nothing ignored.                                           *)
ExtentAddresses == {1, 2, 3}
ExtentTypes == {TestMain, TestEntry(1), TestEntry(2), Unknown}

ExtentRecords ==
    {TracerData(k[1], k[2], a, t) : k \in AggKeys, a \in ExtentAddresses, t \in ExtentTypes}

InitExtents ==
    /\ pc = "units"
    /\ result = << >>
    /\ ignore = {}
    /\ ignore_tests = FALSE
    /\ output = << >>
    /\ ret = "none"
    /\ cwd = project
    /\ cu = NoUnit /\ nunits = 0
    /\ EntriesIdle /\ RowsIdle /\ TraceIdle

\* Lines 225-227, as AppendRecord.
AppendExtentRecord ==
    /\ pc = "units"
    /\ Len(result) < MaxRecs
    /\ \E x \in ExtentRecords : result' = Append(result, x)
    /\ UNCHANGED <<pc, cwd, ret, cu, nunits, aggVars, entVars, rowVars, traceVars>>

NextExtents == AppendExtentRecord \/ FilterAndRecompute

SpecExtents == InitExtents /\ [][NextExtents]_vars

\* The index in `result` of the first record emitted for a (path, line).
FirstEmitted(key) ==
    CHOOSE i \in 1..Len(result) :
        /\ Key(result[i]) = key
        /\ \A j \in 1..(i - 1) : Key(result[j]) # key

SameLine(x, y) ==
    x.path = y.path /\ x.line = y.line /\ x.address = y.address
        /\ x.trace_type.tag = y.trace_type.tag

\* C2: no two records of the output share a (path, line), and each record of
\* the output is the first record emitted for its (path, line).
C2_FirstPerLineSurvives ==
    pc = "returned" =>
        /\ \A i, j \in 1..Len(output) : Key(output[i]) = Key(output[j]) => i = j
        /\ \A i \in 1..Len(output) :
              SameLine(output[i], result[FirstEmitted(Key(output[i]))])

\* C2 witness: a (path, line) emitted twice, at two addresses, is in the
\* output.
C2_Witness ==
    /\ pc = "returned"
    /\ \E i \in 1..Len(output) : \E j, k \in 1..Len(result) :
          /\ j < k
          /\ Key(result[j]) = Key(output[i]) /\ Key(result[k]) = Key(output[i])
          /\ result[j].address # result[k].address

\* C3: no record of the output is a TestMain, is under the tests directory
\* when ignore_tests is set, or has its (path, line) in the ignore set.
C3_NoExcludedRecordSurvives ==
    pc = "returned" =>
        \A i \in 1..Len(output) :
            /\ output[i].trace_type.tag # "TestMain"
            /\ ignore_tests => ~starts_with(output[i].path, tests_dir)
            /\ <<output[i].path, output[i].line>> \notin ignore

\* C3 witness: the three exclusions meet in one run that still has output.
C3_Witness ==
    /\ pc = "returned"
    /\ ignore_tests
    /\ \E i \in 1..Len(result) : result[i].path = tests_it
    /\ \E i \in 1..Len(result) : Key(result[i]) \in ignore
    /\ \E i \in 1..Len(result) :
          result[i].trace_type = TestMain /\ Key(result[i]) \notin ignore
              /\ result[i].path # tests_it

\* What the exclusion rules of the aggregator leave out.
Excluded(x) ==
    \/ x.trace_type = TestMain
    \/ ignore_tests /\ starts_with(x.path, tests_dir)
    \/ Key(x) \in ignore

\* C4: for every (path, line) with an emitted record that no exclusion rule
\* matches, the first such record is in the output.
C4_FirstNotExcludedSurvives ==
    pc = "returned" =>
        \A i \in 1..Len(result) :
            (/\ ~Excluded(result[i])
             /\ \A j \in 1..(i - 1) :
                   Key(result[j]) = Key(result[i]) => Excluded(result[j]))
                => \E k \in 1..Len(output) : SameLine(output[k], result[i])

SetMax(S) == CHOOSE m \in S : \A n \in S : n <= m

\* The address deltas that qualify for an entry at address a with raw extent r.
Deltas(a, r) ==
    {output[j].address - a : j \in 1..Len(output)}
        \cap {d \in 1..r : TRUE}

\* C5: the extent of every TestEntry of the output is the largest delta from
\* its address to the address of a record of the output that is positive and
\* at most the extent it was emitted with, and 0 when there is none.
C5_ExtentIsLargestDeltaWithinRaw ==
    pc = "returned" =>
        \A i \in 1..Len(output) :
            output[i].trace_type.tag = "TestEntry" =>
                LET raw == result[FirstEmitted(Key(output[i]))].trace_type.off
                    D == Deltas(output[i].address, raw)
                IN /\ output[i].trace_type.off = IF D = {} THEN 0 ELSE SetMax(D)
                   /\ output[i].trace_type.off <= raw

\* C5 witness: an entry with two qualifying addresses after it, the larger
\* one first, and the extent the larger one gives.
C5_Witness ==
    /\ pc = "returned"
    /\ Len(output) = 3
    /\ output[1].trace_type = TestEntry(2)
    /\ output[1].address = 1 /\ output[2].address = 3 /\ output[3].address = 2
    /\ result[1].trace_type = TestEntry(2)

-----------------------------------------------------------------------------
(* Spec: get_line_addresses, the loop over the compilation units of one    *)
(* object file and the filters after it.                                   *)

\* A compilation unit as the loop meets it:
\*   abbr_ok     cu.abbreviations(debug_abbrev) is Ok
\*   root_ok     cu.entries(&abbr).next_dfs() is Ok(Some(root))
\*   stmt_list   root.attr_value(DW_AT_stmt_list) is Ok(Some(DebugLineRef))
\*   program_ok  debug_line.program(offset, ..) is Ok
\*   dies        the entries get_entry_points walks
\*   prog        the line-number program
StandardDie == [tag |-> "subprogram", low |-> Addr(1), high |-> Udata(2), linkage |-> DebugStrRef(3)]
TestDie == [tag |-> "subprogram", low |-> Addr(1), high |-> Udata(2), linkage |-> DebugStrRef(1)]
GeneratedDie == [tag |-> "subprogram", low |-> Addr(1), high |-> Udata(2), linkage |-> DebugStrRef(2)]

UnitDies == { << >>, <<StandardDie>>, <<TestDie>>, <<GeneratedDie>> }

RowOf(dir, name, line, address) ==
    [k |-> "row", file |-> TRUE, dir |-> Utf8(dir), name |-> Utf8(<<name>>),
     line |-> line, address |-> address]

SrcRow(a) == RowOf(<<Root, "proj", "src">>, "lib.rs", 1, a)
TestsRow(a) == RowOf(<<Root, "proj", "tests">>, "it.rs", 1, a)
TargetRow(a) == RowOf(<<CurDir, "target", "debug">>, "gen.rs", 1, a)

UnitPrograms ==
    [sequences_ok : BOOLEAN,
     seqs : { << >>,
              << <<SrcRow(1)>> >>,
              << <<SrcRow(1), TestsRow(2)>> >>,
              << <<TargetRow(1)>>, <<SrcRow(2)>> >>,
              << <<CorruptRow, SrcRow(1)>>, <<TestsRow(1)>> >> }]

Units ==
    [abbr_ok : BOOLEAN, root_ok : BOOLEAN, stmt_list : BOOLEAN, program_ok : BOOLEAN,
     dies : UnitDies, prog : UnitPrograms]

Init ==
    /\ pc = "units"
    /\ cwd \in Cwds
    /\ cu = NoUnit
    /\ nunits = 0
    /\ result = << >>
    /\ ignore \in AggIgnores
    /\ ignore_tests \in BOOLEAN
    /\ output = << >>
    /\ ret = "none"
    /\ EntriesIdle /\ RowsIdle /\ TraceIdle

\* Line 201: iter.next() gives a unit.
NextUnit ==
    /\ pc = "units"
    /\ nunits < MaxUnits
    /\ \E u \in Units : cu' = u
    /\ nunits' = nunits + 1
    /\ pc' = "unit"
    /\ UNCHANGED <<cwd, ret, result, aggVars, entVars, rowVars, traceVars>>

\* Lines 203-206, 216-220: no abbreviations, no root entry or no statement
\* list: the loop goes on with the next unit.
SkipUnit ==
    /\ pc = "unit"
    /\ ~cu.abbr_ok \/ ~cu.root_ok \/ ~cu.stmt_list
    /\ cu' = NoUnit
    /\ pc' = "units"
    /\ UNCHANGED <<cwd, ret, nunits, result, aggVars, entVars, rowVars, traceVars>>

\* Line 224: debug_line.program fails and `?` returns the error from
\* get_line_addresses.
ProgramFails ==
    /\ pc = "unit"
    /\ cu.abbr_ok /\ cu.root_ok /\ cu.stmt_list
    /\ ~cu.program_ok
    /\ cu' = NoUnit
    /\ ret' = "Err"
    /\ pc' = "returned"
    /\ UNCHANGED <<cwd, nunits, result, aggVars, entVars, rowVars, traceVars>>

\* Lines 207-215, 224-227: the program is read against the unit's seed table
\* and its records appended; nothing is appended when it returns Err.
ReadProgram ==
    /\ pc = "unit"
    /\ cu.abbr_ok /\ cu.root_ok /\ cu.stmt_list
    /\ cu.program_ok
    /\ LET got == get_addresses_from_program(
                      cu.prog, SeedTable(get_entry_points(cu.dies)), cwd)
       IN result' = IF got.ok THEN result \o got.recs ELSE result
    /\ cu' = NoUnit
    /\ pc' = "units"
    /\ UNCHANGED <<cwd, ret, nunits, aggVars, entVars, rowVars, traceVars>>

Next == NextUnit \/ SkipUnit \/ ProgramFails \/ ReadProgram \/ FilterAndRecompute

Spec == Init /\ [][Next]_vars

\* The line-number program of the unit the loop is on cannot be resolved.
LineProgramUnresolved ==
    /\ pc = "unit"
    /\ cu.abbr_ok /\ cu.root_ok /\ cu.stmt_list
    /\ ~cu.program_ok \/ ~cu.prog.sequences_ok

\* C8: a unit whose line-number program cannot be resolved adds no record
\* and the loop goes on with the next unit, no error is returned.
C8_LineProgramFailureSkipsUnit ==
    [][LineProgramUnresolved => (pc' = "units" /\ result' = result /\ ret' = "none")]_vars

-----------------------------------------------------------------------------
(* SpecTrace: main's loop over the test binaries.  The tracer is the       *)
(* process that runs main; binary k is run by the process fork returns     *)
(* for it.                                                                 *)
(*                                                                         *)
(* child[k].st, the state of the process forked for binary k:              *)
(*   "none"     not forked                                                 *)
(*   "forked"   in the Child branch, before PTRACE_TRACEME                  *)
(*   "traced"   PTRACE_TRACEME done, before execve                         *)
(*   "trapped"  execve done, stopped by the SIGTRAP the kernel sends       *)
(*   "running"  resumed, running the test binary                           *)
(*   "stopped"  stopped by the delivery of another signal                  *)
(*   "exited"   terminated, status in child[k].status, not yet waited for  *)
(*   "killed"   terminated by SIGKILL, not yet waited for                  *)
(*   "reaped"   terminated and waited for                                  *)
(* waited[k] is what the tracer's calls for binary k returned, in order.   *)

NoStatus == [st |-> "none", status |-> 0 - 1]

PanicStatus == 101
ExitStatuses == {0, 1}

NumTests == Len(child)

InitTrace ==
    /\ ppc = "loop"
    /\ idx = 0
    /\ \E n \in 0..MaxTests :
         /\ child = [k \in 1..n |-> NoStatus]
         /\ waited = [k \in 1..n |-> << >>]
    /\ log = << >>
    /\ pc = "idle"
    /\ cwd = project
    /\ ret = "none"
    /\ EntriesIdle /\ RowsIdle /\ UnitsIdle /\ AggIdle

Returned(k, r) == [waited EXCEPT ![k] = Append(@, r)]

\* Lines 95-99: fork returns in the parent, which prints and enters
\* collect_coverage; the child starts in the Child branch.
Fork ==
    /\ ppc = "loop"
    /\ idx < NumTests
    /\ idx' = idx + 1
    /\ child' = [child EXCEPT ![idx + 1].st = "forked"]
    /\ waited' = Returned(idx + 1, "fork_ok")
    /\ log' = Append(log, <<idx + 1, "Parent. Child pid">>)
    /\ ppc' = "waitpid"
    /\ UNCHANGED <<pc, cwd, ret, entVars, rowVars, unitVars, aggVars>>

\* Lines 105-108: fork fails; two lines are printed and the loop goes on.
ForkFails ==
    /\ ppc = "loop"
    /\ idx < NumTests
    /\ idx' = idx + 1
    /\ waited' = Returned(idx + 1, "fork_err")
    /\ log' = log \o << <<idx + 1, "Failed to run">>, <<idx + 1, "Error">> >>
    /\ ppc' = "loop"
    /\ UNCHANGED <<child, pc, cwd, ret, entVars, rowVars, unitVars, aggVars>>

\* Lines 95, 110-112: no binary is left, main returns.
LoopEnds ==
    /\ ppc = "loop"
    /\ idx = NumTests
    /\ ppc' = "done"
    /\ UNCHANGED <<idx, child, waited, log, pc, cwd, ret, entVars, rowVars, unitVars, aggVars>>

\* Lines 116-118: waitpid reports the stop by SIGTRAP.
WaitStopped ==
    /\ ppc = "waitpid"
    /\ child[idx].st = "trapped"
    /\ waited' = Returned(idx, "Stopped(SIGTRAP)")
    /\ log' = Append(log, <<idx, "Got her, continuing run">>)
    /\ ppc' = "cont"
    /\ UNCHANGED <<idx, child, pc, cwd, ret, entVars, rowVars, unitVars, aggVars>>

\* What waitpid reports for a child that is not in its SIGTRAP stop.
WaitStatusOf(st) ==
    CASE st = "exited" -> "Exited"
      [] st = "killed" -> "Signaled"
      [] st = "stopped" -> "Stopped(other)"

\* WaitUnexpected as if the unexpected status were fatal to the tracer.
WaitUnexpected_Panics ==
    /\ ppc = "waitpid"
    /\ child[idx].st \in {"exited", "killed", "stopped"}
    /\ waited' = Returned(idx, WaitStatusOf(child[idx].st))
    /\ child' = [child EXCEPT ![idx].st = IF @ = "stopped" THEN @ ELSE "reaped"]
    /\ log' = Append(log, <<idx, "Unexpected grab">>)
    /\ ppc' = "panicked"
    /\ UNCHANGED <<idx, pc, cwd, ret, entVars, rowVars, unitVars, aggVars>>

\* Lines 116, 123-125: waitpid reports another change of state; a line is
\* printed and collect_coverage returns.
WaitUnexpected ==
    /\ ppc = "waitpid"
    /\ child[idx].st \in {"exited", "killed", "stopped"}
    /\ waited' = Returned(idx, WaitStatusOf(child[idx].st))
    /\ child' = [child EXCEPT ![idx].st = IF @ = "stopped" THEN @ ELSE "reaped"]
    /\ log' = Append(log, <<idx, "Unexpected grab">>)
    /\ ppc' = "loop"
    /\ UNCHANGED <<idx, pc, cwd, ret, entVars, rowVars, unitVars, aggVars>>

\* Lines 116, 126: waitpid fails; the error is printed and collect_coverage
\* returns.
WaitFails ==
    /\ ppc = "waitpid"
    /\ waited' = Returned(idx, "wait_err")
    /\ log' = Append(log, <<idx, "waitpid error">>)
    /\ ppc' = "loop"
    /\ UNCHANGED <<idx, child, pc, cwd, ret, entVars, rowVars, unitVars, aggVars>>

\* Lines 119-121, 128: PTRACE_CONT resumes the child and collect_coverage
\* returns.
Continue ==
    /\ ppc = "cont"
    /\ child[idx].st = "trapped"
    /\ child' = [child EXCEPT ![idx].st = "running"]
    /\ waited' = Returned(idx, "cont_ok")
    /\ ppc' = "loop"
    /\ UNCHANGED <<idx, log, pc, cwd, ret, entVars, rowVars, unitVars, aggVars>>

\* Lines 119-121: PTRACE_CONT fails (the child is gone) and expect panics.
ContinueFails ==
    /\ ppc = "cont"
    /\ child[idx].st # "trapped"
    /\ waited' = Returned(idx, "cont_err")
    /\ ppc' = "panicked"
    /\ UNCHANGED <<idx, child, log, pc, cwd, ret, entVars, rowVars, unitVars, aggVars>>

\* Lines 134-136: the child's PTRACE_TRACEME succeeds.
TraceMe ==
    \E k \in 1..NumTests :
        /\ child[k].st = "forked"
        /\ child' = [child EXCEPT ![k].st = "traced"]
        /\ UNCHANGED <<ppc, idx, waited, log, pc, cwd, ret, entVars, rowVars, unitVars, aggVars>>

\* Lines 134-136: PTRACE_TRACEME fails, expect panics and the child exits.
TraceMeFails ==
    \E k \in 1..NumTests :
        /\ child[k].st = "forked"
        /\ child' = [child EXCEPT ![k] = [st |-> "exited", status |-> PanicStatus]]
        /\ UNCHANGED <<ppc, idx, waited, log, pc, cwd, ret, entVars, rowVars, unitVars, aggVars>>

\* Line 143: execve replaces the image; the traced process stops with
\* SIGTRAP before the first instruction of the test binary.
Exec ==
    \E k \in 1..NumTests :
        /\ child[k].st = "traced"
        /\ child' = [child EXCEPT ![k].st = "trapped"]
        /\ UNCHANGED <<ppc, idx, waited, log, pc, cwd, ret, entVars, rowVars, unitVars, aggVars>>

\* Lines 143-144: execve fails, unwrap panics and the child exits.
ExecFails ==
    \E k \in 1..NumTests :
        /\ child[k].st = "traced"
        /\ child' = [child EXCEPT ![k] = [st |-> "exited", status |-> PanicStatus]]
        /\ UNCHANGED <<ppc, idx, waited, log, pc, cwd, ret, entVars, rowVars, unitVars, aggVars>>

\* The test binary, resumed, runs to its end.
TestExits ==
    \E k \in 1..NumTests :
        /\ child[k].st = "running"
        /\ \E s \in ExitStatuses : child' = [child EXCEPT ![k] = [st |-> "exited", status |-> s]]
        /\ UNCHANGED <<ppc, idx, waited, log, pc, cwd, ret, entVars, rowVars, unitVars, aggVars>>

\* A signal is delivered to the traced child before execve: it stops.
SignalStops ==
    \E k \in 1..NumTests :
        /\ child[k].st = "traced"
        /\ child' = [child EXCEPT ![k].st = "stopped"]
        /\ UNCHANGED <<ppc, idx, waited, log, pc, cwd, ret, entVars, rowVars, unitVars, aggVars>>

\* The child is killed from outside.
Killed ==
    \E k \in 1..NumTests :
        /\ child[k].st \in {"forked", "traced", "trapped", "running", "stopped"}
        /\ child' = [child EXCEPT ![k].st = "killed"]
        /\ UNCHANGED <<ppc, idx, waited, log, pc, cwd, ret, entVars, rowVars, unitVars, aggVars>>

TracerNext ==
    \/ Fork \/ ForkFails \/ LoopEnds
    \/ WaitStopped \/ WaitUnexpected \/ WaitFails
    \/ Continue \/ ContinueFails

ChildNext ==
    \/ TraceMe \/ TraceMeFails
    \/ Exec \/ ExecFails
    \/ TestExits \/ SignalStops \/ Killed

NextTrace == TracerNext \/ ChildNext

SpecTrace == InitTrace /\ [][NextTrace]_vars

\* The state of section 4.5's machine the tracer is in for binary k.
TracerState(w) ==
    IF w = << >> THEN "NotStarted"
    ELSE CASE Last(w) = "fork_ok" -> "Execing"
           [] Last(w) = "Stopped(SIGTRAP)" -> "InitialTrap"
           [] Last(w) = "cont_ok" -> "Running"
           [] OTHER -> "Failed"

TracingFailures == {"fork_err", "Exited", "Signaled", "Stopped(other)", "wait_err"}

\* The tracer's call for binary k returns one of the failures of C6.
FailureOf(k) ==
    /\ waited'[k] # waited[k]
    /\ Last(waited'[k]) \in TracingFailures

\* C6: when fork fails, or the first waitpid for a child returns an error or
\* anything but the SIGTRAP stop (the child's exec failed and it exited, it
\* was killed, it stopped on another signal), the tracer prints a line for
\* that binary, that binary alone becomes Failed, and the tracer is back at
\* the head of the loop with the next binary to take; main ends only after
\* fork has been called for every binary.
C6_FailureLeavesLoopRunning ==
    /\ [][\A k \in 1..NumTests :
            FailureOf(k) =>
                /\ ppc' = "loop" /\ idx' = k
                /\ Len(log') > Len(log) /\ Last(log')[1] = k
                /\ TracerState(waited'[k]) = "Failed"
                /\ \A j \in 1..NumTests : j # k => waited'[j] = waited[j]]_vars
    /\ [](ppc = "done" =>
            /\ idx = NumTests
            /\ \A k \in 1..NumTests : waited[k] # << >>)

\* C6 witness: the first binary's exec failed, the tracer saw it exited, and
\* the second binary was forked, trapped and resumed all the same.
C6_Witness ==
    /\ NumTests >= 2
    /\ child[1] = [st |-> "reaped", status |-> PanicStatus]
    /\ waited[1] = <<"fork_ok", "Exited">>
    /\ waited[2] = <<"fork_ok", "Stopped(SIGTRAP)", "cont_ok">>
    /\ ppc = "done"

\* C7: when main has returned, every child that was resumed from its initial
\* stop and has terminated was seen to terminate by a waitpid of the tracer
\* that followed the resumption.
C7_TerminationObserved ==
    \A k \in 1..NumTests :
        (/\ ppc = "done"
         /\ child[k].st \in {"exited", "reaped"}
         /\ \E i \in 1..Len(waited[k]) : waited[k][i] = "cont_ok")
            => \E i, j \in 1..Len(waited[k]) :
                   i < j /\ waited[k][i] = "cont_ok" /\ waited[k][j] = "Exited"

\* The number of binaries fork has been called for.
Forks == Cardinality({k \in 1..NumTests : waited[k] # << >>})

\* The tracer process is over: main has returned or has panicked.
TracerEnded == ppc \in {"done", "panicked"}

\* C11: the process forked for a binary only runs execute_test and then the
\* test binary or nothing, so fork is called by the tracer alone, at most
\* once per binary, a process exists for a binary exactly when the tracer's
\* fork for it succeeded, and once the tracer is over fork has been called as
\* many times as there are test binaries.
C11_ForksEqualBinaries ==
    /\ \A k \in 1..NumTests :
         /\ Cardinality({i \in 1..Len(waited[k]) :
                            waited[k][i] \in {"fork_ok", "fork_err"}}) <= 1
         /\ (child[k].st # "none") <=> (waited[k] # << >> /\ waited[k][1] = "fork_ok")
    /\ TracerEnded => Forks = NumTests

=============================================================================
